---- MODULE Spec2Model ----
(***************************************************************************)
(* Model of thetri.py: a Streamlit page that moves words from the bucket   *)
(* "MotsNonTriés" of a JSON document kept in a GitHub gist into one of     *)
(* four category buckets, and writes the whole document back.              *)
(*                                                                         *)
(* Names are the source's, with accents dropped (MotsNonTries, Geographie, *)
(* Rejete).                                                                *)
(*                                                                         *)
(* Three specifications share the variables:                               *)
(*   Spec       the page run by two browser sessions against one gist;     *)
(*   SpecFn     trier_les_mots and voir_mots_tries as functions of an      *)
(*              arbitrary loaded document;                                 *)
(*   SpecFetch  the clean-up and parse of the gist content in              *)
(*              fetch_gist_data.                                           *)
(***************************************************************************)
EXTENDS Integers, Sequences, FiniteSets, TLC

VARIABLES
    \* Spec: the gist and the sessions
    gist,        \* the content of mots.json in the gist (the text json.dumps wrote)
    docs,        \* per session: the document of the current script run
    pc,          \* per session: "idle" (no run), "loaded" (a run has fetched the document)
    outcome,     \* per session: what the button handler did since the last fetch
    base,        \* per session: the gist content that the last fetch read
    gist0,       \* the gist content at the start
    \* SpecFn: the functions on one document
    fdata, fmot, fcat, fpc, r1, r2, metrics,
    \* SpecFetch: the content clean-up
    content, fetched

vars == <<gist, docs, pc, outcome, base, gist0,
          fdata, fmot, fcat, fpc, r1, r2, metrics, content, fetched>>
wfVars == <<gist, docs, pc, outcome, base, gist0>>
fnVars == <<fdata, fmot, fcat, fpc, r1, r2, metrics>>
fetchVars == <<content, fetched>>

\* ------------------------------------------------------------------ bounds
\* longest "MotsNonTriés" list of a generated document
MaxLen == 2
\* most keys, other than "MotsNonTriés", present in a generated document
MaxBuckets == 1
\* longest "MotsNonTriés" list of the gist at the start
MaxGistLen == 1
\* longest gist content, in characters, given to the parser
MaxContentLen == 4

\* One-character words, so that a word is also a character of a string value.
Words == {"a", "b"}
Sessions == {"s1", "s2"}

\* ------------------------------------------------------------ JSON values
MotsNonTries == "MotsNonTries"
CATEGORIES == <<"Classique", "Torride", "Geographie", "Rejete">>
CategoryNames == {CATEGORIES[i] : i \in 1..Len(CATEGORIES)}
\* a key the page never offers, which a hand-edited gist may hold
Autre == "Autre"
OtherNames == CategoryNames \cup {Autre}
AllNames == {MotsNonTries} \cup OtherNames
NameSeq == <<MotsNonTries>> \o CATEGORIES \o <<Autre>>

\* A JSON value under a key of the document: kind is its Python type; items
\* are the elements of a list, the keys of a dict, the characters of a str.
\* "num" is a non-zero number; zero behaves as "null" does in this code
\* (falsy, no len()).  "absent" is a key the document does not hold.
Val(k, its) == [kind |-> k, items |-> its]
Absent == Val("absent", <<>>)
EmptyList == Val("list", <<>>)

SeqsUpTo(S, n) == UNION {[1..k -> S] : k \in 0..n}
Range(s) == {s[i] : i \in 1..Len(s)}
Occ(s, w) == Cardinality({i \in 1..Len(s) : s[i] = w})

\* data.get(key, [])
Get(data, key) == IF data[key].kind = "absent" THEN EmptyList ELSE data[key]
\* bool(v)
Truthy(v) == CASE v.kind \in {"list", "dict", "str"} -> v.items # <<>>
               [] v.kind = "num" -> TRUE
               [] OTHER -> FALSE
\* len(v) is defined
HasLen(v) == v.kind \in {"list", "dict", "str"}
\* list.remove(w): the first occurrence goes
RemoveFirst(s, w) ==
    LET i == CHOOSE j \in 1..Len(s) : s[j] = w /\ \A k \in 1..(j-1) : s[k] # w
    IN  [k \in 1..(Len(s)-1) |-> IF k < i THEN s[k] ELSE s[k+1]]

\* ------------------------------------------------------- update_gist_data
\* json.dumps(data): the present keys with their values.  The order of the keys
\* in the text is not modelled: Python compares dicts regardless of it.
JsonDumps(data) ==
    LET F[i \in 0..Len(NameSeq)] ==
          IF i = 0 THEN <<>>
          ELSE IF data[NameSeq[i]].kind = "absent" THEN F[i-1]
          ELSE Append(F[i-1], <<NameSeq[i], data[NameSeq[i]]>>)
    IN  F[Len(NameSeq)]
\* json.loads(text) of such a text
JsonLoads(text) ==
    [n \in AllNames |->
        IF \E i \in 1..Len(text) : text[i][1] = n
        THEN (text[CHOOSE i \in 1..Len(text) : text[i][1] = n])[2]
        ELSE Absent]

\* A PATCH that sends only the category buckets and leaves the stored
\* "MotsNonTriés" as it is.
update_gist_data_partial(stored, data, ok) ==
    IF ok
    THEN JsonDumps([n \in AllNames |->
            IF n = MotsNonTries THEN JsonLoads(stored)[n] ELSE data[n]])
    ELSE stored
\* The gist content after update_gist_data(data); ok is whether the PATCH
\* went through.
update_gist_data(stored, data, ok) == IF ok THEN JsonDumps(data) ELSE stored

\* --------------------------------------------------------- trier_les_mots
Result(d, r, s) == [data |-> d, raised |-> r, sent |-> s]

\* trier_les_mots where the word is appended whether or not it was found.
trier_les_mots_unguarded(data, mot_a_trier, categorie) ==
    LET mots == Get(data, MotsNonTries)
    IN  IF ~Truthy(mots) THEN Result(data, FALSE, FALSE)
        ELSE IF mots.kind # "list" THEN Result(data, TRUE, FALSE)
        ELSE
          LET d1 == IF mot_a_trier \in Range(mots.items)
                    THEN [data EXCEPT ![MotsNonTries].items = RemoveFirst(@, mot_a_trier)]
                    ELSE data
              d2 == IF d1[categorie].kind \in {"absent", "dict"}
                    THEN [d1 EXCEPT ![categorie] = EmptyList] ELSE d1
          IN  IF d2[categorie].kind # "list" THEN Result(d2, TRUE, FALSE)
              ELSE Result([d2 EXCEPT ![categorie].items = Append(@, mot_a_trier)],
                          FALSE, TRUE)

\* trier_les_mots where the destination is always started afresh.
trier_les_mots_reset(data, mot_a_trier, categorie) ==
    LET mots == Get(data, MotsNonTries)
    IN  IF ~Truthy(mots) THEN Result(data, FALSE, FALSE)
        ELSE IF mots.kind # "list" THEN Result(data, TRUE, FALSE)
        ELSE IF mot_a_trier \notin Range(mots.items) THEN Result(data, FALSE, FALSE)
        ELSE Result([data EXCEPT ![MotsNonTries].items = RemoveFirst(@, mot_a_trier),
                                 ![categorie] = Val("list", <<mot_a_trier>>)],
                    FALSE, TRUE)

\* The button handler of trier_les_mots with the selected word and category:
\* the document after it, whether it raised, and whether it called
\* update_gist_data.
trier_les_mots(data, mot_a_trier, categorie) ==
    LET mots == Get(data, MotsNonTries)                      \* line 115
    IN  IF ~Truthy(mots) THEN Result(data, FALSE, FALSE)      \* lines 117-119
        ELSE IF ~HasLen(mots) THEN Result(data, TRUE, FALSE)  \* line 121: len() of a number
        ELSE IF mot_a_trier \notin Range(mots.items)          \* line 136
             THEN Result(data, FALSE, FALSE)
        ELSE IF mots.kind # "list"                            \* line 137: no .remove
             THEN Result(data, TRUE, FALSE)
        ELSE
          LET d1 == [data EXCEPT ![MotsNonTries].items = RemoveFirst(@, mot_a_trier)]
              d2 == IF d1[categorie].kind = "absent"          \* lines 140-141
                    THEN [d1 EXCEPT ![categorie] = EmptyList] ELSE d1
              d3 == IF d2[categorie].kind = "dict"            \* lines 142-143
                    THEN [d2 EXCEPT ![categorie] = EmptyList] ELSE d2
          IN  IF d3[categorie].kind # "list"                  \* line 144: no .append
              THEN Result(d3, TRUE, FALSE)
              ELSE Result([d3 EXCEPT ![categorie].items = Append(@, mot_a_trier)],
                          FALSE, TRUE)

\* -------------------------------------------------------- voir_mots_tries
Metrics(r, n, t) == [raised |-> r, non_tries |-> n, tries |-> t, total |-> n + t]

\* the sum of the lengths of the list-valued buckets among names[1..i]
SumLists(data, names) ==
    LET F[i \in 0..Len(names)] ==
          IF i = 0 THEN 0
          ELSE F[i-1] + (IF Get(data, names[i]).kind = "list"
                         THEN Len(Get(data, names[i]).items) ELSE 0)
    IN  F[Len(names)]

\* voir_mots_tries counting every key other than "MotsNonTriés".
voir_mots_tries_all(data) ==
    LET mots == Get(data, MotsNonTries)
    IN  IF ~HasLen(mots) THEN Metrics(TRUE, 0, 0)
        ELSE Metrics(FALSE, Len(mots.items), SumLists(data, CATEGORIES \o <<Autre>>))

\* The three metrics of voir_mots_tries, or raised when len() has no meaning.
voir_mots_tries(data) ==
    LET mots == Get(data, MotsNonTries)                       \* line 158
    IN  IF ~HasLen(mots) THEN Metrics(TRUE, 0, 0)
        ELSE Metrics(FALSE, Len(mots.items), SumLists(data, CATEGORIES)) \* line 159

\* ------------------------------------------------------ generated documents
Lists(n) == {Val("list", s) : s \in SeqsUpTo(Words, n)}
\* malformed values: {} , {"a": ...}-less forms are told apart only by kind and items
Malformed == {Val("dict", <<>>), Val("str", <<"a">>), Val("num", <<>>), Val("null", <<>>)}
UnsortedVals == Lists(MaxLen) \cup Malformed \cup {Absent, Val("dict", <<"a">>)}
CatVals == Lists(1) \cup Malformed

\* the document with value u under "MotsNonTriés" and f[n] under each key n of S
MkDoc(S, u, f) ==
    [n \in AllNames |-> IF n = MotsNonTries THEN u ELSE IF n \in S THEN f[n] ELSE Absent]
KeySets == {T \in SUBSET OtherNames : Cardinality(T) <= MaxBuckets}

\* The gist at the start: the words to sort and at most one category key,
\* holding a list, the {} of the CATEGORIES template, or a string.  The code
\* treats the four names alike, so the key is the first or the last of them.
GistKeys == {CATEGORIES[1], CATEGORIES[Len(CATEGORIES)]}
GistCatVals == {EmptyList, Val("list", <<"b">>), Val("dict", <<>>), Val("str", <<"a">>)}
GistDocs ==
    {MkDoc({}, u, <<>>) : u \in Lists(MaxGistLen)}
    \cup {MkDoc({k}, u, [n \in {k} |-> v]) :
             u \in Lists(MaxGistLen), k \in GistKeys, v \in GistCatVals}
NoDoc == [n \in AllNames |-> Absent]
NoResult == Result(NoDoc, FALSE, FALSE)

\* ------------------------------------------------------------------- Spec
FnIdle ==
    /\ fdata = NoDoc /\ fmot = "a" /\ fcat = Autre /\ fpc = "off"
    /\ r1 = NoResult /\ r2 = NoResult /\ metrics = Metrics(FALSE, 0, 0)
FetchIdle == content = <<>> /\ fetched = "off"
WfIdle ==
    /\ gist = <<>> /\ gist0 = <<>>
    /\ docs = [s \in Sessions |-> NoDoc]
    /\ pc = [s \in Sessions |-> "off"]
    /\ outcome = [s \in Sessions |-> "none"]
    /\ base = [s \in Sessions |-> <<>>]

Init ==
    /\ gist \in {JsonDumps(d) : d \in GistDocs}
    /\ gist0 = gist
    /\ docs = [s \in Sessions |-> NoDoc]
    /\ pc = [s \in Sessions |-> "idle"]
    /\ outcome = [s \in Sessions |-> "none"]
    /\ base = [s \in Sessions |-> <<>>]
    /\ FnIdle /\ FetchIdle

\* A script run begins (the page is opened, a widget is touched, or
\* st.rerun() was called) and fetch_gist_data returns the parsed content:
\* main, line 100.
FetchOk(s) ==
    /\ pc[s] = "idle"
    /\ docs' = [docs EXCEPT ![s] = JsonLoads(gist)]
    /\ base' = [base EXCEPT ![s] = gist]
    /\ outcome' = [outcome EXCEPT ![s] = "none"]
    /\ pc' = [pc EXCEPT ![s] = "loaded"]
    /\ UNCHANGED <<gist, gist0, fnVars, fetchVars>>

\* A script run begins and fetch_gist_data returns None (lines 57-63): data
\* is None and main returns at line 102.
FetchFail(s) ==
    /\ pc[s] = "idle"
    /\ docs' = [docs EXCEPT ![s] = NoDoc]
    /\ base' = [base EXCEPT ![s] = <<>>]
    /\ outcome' = [outcome EXCEPT ![s] = "none"]
    /\ UNCHANGED <<pc, gist, gist0, fnVars, fetchVars>>

\* the words the selectbox of line 125 offers
Options(d) ==
    LET mots == Get(d, MotsNonTries)
    IN  IF Truthy(mots) /\ HasLen(mots) THEN Range(mots.items) ELSE {}

\* The run in which the button is pressed: the handler of lines 134-151 on
\* the document just fetched, then st.rerun() after a save, or the rest of
\* the page after a failed one.  afterFailure is where a failed save leaves
\* the session.
Trier(s, afterFailure) ==
    /\ pc[s] = "loaded"
    /\ \E mot \in Options(docs[s]), cat \in CategoryNames, ok \in BOOLEAN :
         LET r == trier_les_mots(docs[s], mot, cat)
         IN  /\ docs' = [docs EXCEPT ![s] = r.data]
             /\ gist' = IF r.sent THEN update_gist_data(gist, r.data, ok) ELSE gist
             /\ outcome' = [outcome EXCEPT ![s] =
                    IF r.raised THEN "raised"
                    ELSE IF ~r.sent THEN "noop"
                    ELSE IF ok THEN "saved" ELSE "failed"]
             /\ pc' = [pc EXCEPT ![s] =
                    IF r.sent /\ ~ok THEN afterFailure ELSE "idle"]
    /\ UNCHANGED <<base, gist0, fnVars, fetchVars>>

\* A page on which a failed save leaves the form live on the same document.
TrierLesMotsNoRefetch(s) == Trier(s, "loaded")
TrierLesMots(s) == Trier(s, "idle")

\* A run in which the button is not pressed: the page is drawn from the
\* document as fetched, and the run ends, its data with it.
Render(s) ==
    /\ pc[s] = "loaded"
    /\ pc' = [pc EXCEPT ![s] = "idle"]
    /\ docs' = [docs EXCEPT ![s] = NoDoc]
    /\ base' = [base EXCEPT ![s] = <<>>]
    /\ UNCHANGED <<gist, outcome, gist0, fnVars, fetchVars>>

Next ==
    \E s \in Sessions :
        \/ FetchOk(s)
        \/ FetchFail(s)
        \/ TrierLesMots(s)
        \/ Render(s)

Spec == Init /\ [][Next]_vars

\* ----------------------------------------------------------------- SpecFn
InitFn ==
    /\ \E S \in KeySets, u \in UnsortedVals :
         \E f \in [S -> CatVals] : fdata = MkDoc(S, u, f)
    /\ fmot = "a" /\ fcat = Autre /\ fpc = "init"
    /\ r1 = NoResult /\ r2 = NoResult /\ metrics = Metrics(FALSE, 0, 0)
    /\ WfIdle /\ FetchIdle

\* the handler on the document, for any word and any destination
Call1 ==
    /\ fpc = "init"
    /\ \E w \in Words, c \in OtherNames :
         /\ fmot' = w /\ fcat' = c
         /\ r1' = trier_les_mots(fdata, w, c)
    /\ fpc' = "once"
    /\ UNCHANGED <<fdata, r2, metrics, wfVars, fetchVars>>

\* the handler again, on the document the first call left
Call2 ==
    /\ fpc = "once"
    /\ r2' = trier_les_mots(r1.data, fmot, fcat)
    /\ fpc' = "twice"
    /\ UNCHANGED <<fdata, fmot, fcat, r1, metrics, wfVars, fetchVars>>

\* the statistics of the second tab
Voir ==
    /\ fpc = "init"
    /\ metrics' = voir_mots_tries(fdata)
    /\ fpc' = "viewed"
    /\ UNCHANGED <<fdata, fmot, fcat, r1, r2, wfVars, fetchVars>>

NextFn == Call1 \/ Call2 \/ Voir
SpecFn == InitFn /\ [][NextFn]_vars

\* -------------------------------------------------------------- SpecFetch
\* The characters of a gist content: the byte-order mark U+FEFF, the
\* non-breaking space U+00A0, a space, the braces of a JSON object, and "m",
\* which stands for one member such as "MotsNonTriés": [].
Chars == {"BOM", "NBSP", "SP", "{", "}", "m"}
\* str.isspace(): true of the space and of U+00A0, false of U+FEFF
PyWhitespace == {"SP", "NBSP"}
\* the whitespace the JSON grammar and json.loads allow between tokens
JsonWhitespace == {"SP"}

\* content.strip(), line 49
Strip(c) ==
    LET keep == {i \in 1..Len(c) : c[i] \notin PyWhitespace}
    IN  IF keep = {} THEN <<>>
        ELSE SubSeq(c, CHOOSE i \in keep : \A j \in keep : i <= j,
                       CHOOSE i \in keep : \A j \in keep : i >= j)
\* lines 50-51
DropBom(c) == IF c # <<>> /\ Head(c) = "BOM" THEN Tail(c) ELSE c
\* json.loads accepts the text: an object of no or one member, with JSON
\* whitespace around the tokens
IsToken(x) == x \notin JsonWhitespace
JsonAccepts(c) == SelectSeq(c, IsToken) \in {<<"{", "}">>, <<"{", "m", "}">>}
\* lines 48-53 and 60-63: the cleaned content parsed, or JSONDecodeError
fetch_gist_data(c) ==
    IF JsonAccepts(DropBom(Strip(c))) THEN "document" ELSE "JSONDecodeError"

InitFetch ==
    /\ content \in SeqsUpTo(Chars, MaxContentLen)
    /\ fetched = "pending"
    /\ WfIdle /\ FnIdle

Parse ==
    /\ fetched = "pending"
    /\ fetched' = fetch_gist_data(content)
    /\ UNCHANGED <<content, wfVars, fnVars>>

NextFetch == Parse
SpecFetch == InitFetch /\ [][NextFetch]_vars

\* =================================================================== claims
\* how many times w stands in the list-valued buckets of d
WordCount(d, w) ==
    Cardinality({x \in AllNames \X (1..(MaxLen + MaxGistLen + 2)) :
                    /\ d[x[1]].kind = "list"
                    /\ x[2] <= Len(d[x[1]].items)
                    /\ d[x[1]].items[x[2]] = w})
\* w stands in the list under key n of d
InBucket(d, n, w) == d[n].kind = "list" /\ w \in Range(d[n].items)
\* the places of the list-valued buckets of d among names
Slots(d, names) ==
    {x \in names \X (1..(MaxLen + 2)) :
        d[x[1]].kind = "list" /\ x[2] <= Len(d[x[1]].items)}
\* session s holds a document
HasDoc(s) == pc[s] = "loaded" \/ outcome[s] # "none"
Gist0Doc == JsonLoads(gist0)

\* C1: starting from a document in which every word stands exactly once,
\* every word still stands exactly once in the gist and in every session's
\* document, whatever fetches, classifications and saves happened.
C1_EveryWordExactlyOnce ==
    (\A w \in Words : WordCount(Gist0Doc, w) <= 1)
    => \A w \in Words :
         /\ WordCount(JsonLoads(gist), w) = WordCount(Gist0Doc, w)
         /\ \A s \in Sessions :
              HasDoc(s) => WordCount(docs[s], w) = WordCount(Gist0Doc, w)

\* C2 as stated: a word in a category bucket of a session's document stays
\* in that bucket and does not come back among the unsorted words, across
\* every later step, fetches included.
C2_TerminalAcrossLoads ==
    [][\A s \in Sessions, w \in Words, c \in CategoryNames :
          (HasDoc(s) /\ HasDoc(s)' /\ InBucket(docs[s], c, w))
          => /\ InBucket(docs'[s], c, w)
             /\ Occ(Get(docs'[s], MotsNonTries).items, w)
                  <= Occ(Get(docs[s], MotsNonTries).items, w)]_vars

\* C2 amended: a word in a category bucket of the document a run has fetched
\* stays in that bucket and does not come back among the unsorted words
\* through the classification and the save of that run, whether the save
\* succeeds or fails.  (The next fetch replaces the document.)
C2_TerminalWithinRun ==
    [][\A s \in Sessions, w \in Words, c \in CategoryNames :
          (pc[s] = "loaded" /\ HasDoc(s)' /\ InBucket(docs[s], c, w))
          => /\ InBucket(docs'[s], c, w)
             /\ Occ(Get(docs'[s], MotsNonTries).items, w)
                  <= Occ(Get(docs[s], MotsNonTries).items, w)]_vars

\* a run has classified w2 and saved or failed to, and w1, classified before
\* the run fetched, is still where it was
C2_Witness ==
    \E s \in Sessions, w1 \in Words, w2 \in Words, c1 \in CategoryNames, c2 \in CategoryNames :
        /\ outcome[s] \in {"saved", "failed"}
        /\ w1 # w2
        /\ InBucket(JsonLoads(base[s]), c1, w1) /\ InBucket(docs[s], c1, w1)
        /\ ~InBucket(JsonLoads(base[s]), c2, w2) /\ InBucket(docs[s], c2, w2)

\* C3: a destination holding a value that is not a list is replaced by an
\* empty list and the word appended: the destination ends as [word] and
\* nothing is raised.
C3_MalformedDestinationNormalised ==
    ( /\ fpc = "once"
      /\ InBucket(fdata, MotsNonTries, fmot)
      /\ fdata[fcat].kind \notin {"list", "absent"} )
    => ~r1.raised /\ r1.data[fcat] = Val("list", <<fmot>>)

\* C4: a failed save keeps the change in the session's document and leaves
\* the gist as it was; the diverged document is never classified again, it
\* is only replaced by a fetch; and every classification works on the
\* document its own run fetched.
C4_FailedSaveThenRefetch ==
    [][\A s \in Sessions :
          /\ (pc[s] = "loaded" /\ outcome'[s] = "failed")
             => gist' = gist /\ docs'[s] # docs[s] /\ pc'[s] = "idle"
          /\ (outcome[s] = "failed" /\ docs'[s] # docs[s])
             => /\ pc[s] = "idle" /\ outcome'[s] = "none"
                /\ docs'[s] \in {JsonLoads(gist), NoDoc}
          /\ (pc[s] = "loaded" /\ outcome'[s] \in {"saved", "failed", "raised"})
             => outcome[s] = "none" /\ docs[s] = JsonLoads(base[s])]_vars

\* a save has failed: the session's document has the word moved, the gist is
\* what the run fetched
C4_Witness ==
    \E s \in Sessions :
        /\ outcome[s] = "failed" /\ pc[s] = "idle"
        /\ gist = base[s]
        /\ docs[s] # JsonLoads(gist)
        /\ \E w \in Words, c \in CategoryNames :
             InBucket(docs[s], c, w) /\ InBucket(JsonLoads(gist), MotsNonTries, w)

C6_SecondCallNoOp ==
    (fpc = "twice" /\ InBucket(fdata, MotsNonTries, fmot))
    => r2.data = r1.data

\* C6 amended: for every document in which w stands exactly once among the
\* unsorted words, the second of two calls changes nothing and saves nothing.
C6_SecondCallNoOpWhenUnique ==
    ( /\ fpc = "twice"
      /\ fdata[MotsNonTries].kind = "list"
      /\ Occ(fdata[MotsNonTries].items, fmot) = 1 )
    => r2.data = r1.data /\ ~r2.sent

\* the first call moved the word and saved; the second found other words to
\* sort, not this one, and left the document alone
C6_Witness ==
    /\ fpc = "twice"
    /\ fdata[MotsNonTries].kind = "list"
    /\ Occ(fdata[MotsNonTries].items, fmot) = 1
    /\ Len(fdata[MotsNonTries].items) = 2
    /\ r1.sent /\ InBucket(r1.data, fcat, fmot)
    /\ r2.data = r1.data /\ ~r2.sent

\* C7: one call leaves the multiset of all words of the document as it was,
\* also when the destination was missing or held a malformed value.
C7_Conservation ==
    fpc = "once" => \A w \in Words : WordCount(r1.data, w) = WordCount(fdata, w)

\* C8: a save that goes through makes the gist exactly the document of the
\* session that saved, whatever the gist held: last writer wins.
C8_LastWriterWins ==
    [][\A s \in Sessions :
          (pc[s] = "loaded" /\ outcome'[s] = "saved")
          => JsonLoads(gist') = docs'[s]]_vars

\* two sessions fetched the same content, each classified a word and saved;
\* the gist is the document of t, and what s classified is not in it
C8_Witness ==
    \E s \in Sessions, t \in Sessions :
        /\ s # t
        /\ outcome[s] = "saved" /\ outcome[t] = "saved"
        /\ base[s] = base[t]
        /\ JsonLoads(gist) = docs[t]
        /\ \E w \in Words, c \in CategoryNames :
             /\ InBucket(docs[s], c, w)
             /\ ~InBucket(JsonLoads(base[s]), c, w)
             /\ ~InBucket(JsonLoads(gist), c, w)

\* the content once a leading byte-order mark is dropped and every
\* non-breaking space is made a space
Normalised(c) ==
    LET d == DropBom(c)
    IN  [i \in 1..Len(d) |-> IF d[i] = "NBSP" THEN "SP" ELSE d[i]]

\* C9: a content that is a JSON document once its leading byte-order mark is
\* dropped and its non-breaking spaces are made spaces is parsed.
C9_BomAndNbspTolerated ==
    (fetched # "pending" /\ JsonAccepts(Normalised(content)))
    => fetched = "document"

\* C10: classifying a word that is not among the unsorted words changes no
\* bucket, creates no destination and sends no save.
C10_AbsentWordNoOp ==
    (fpc = "once" /\ ~InBucket(fdata, MotsNonTries, fmot))
    => r1.data = fdata /\ ~r1.sent

\* there were words to sort, the word was not one of them, and the
\* destination, missing before, is missing after
C10_Witness ==
    /\ fpc = "once"
    /\ fdata[MotsNonTries].kind = "list" /\ fdata[MotsNonTries].items # <<>>
    /\ fmot \notin Range(fdata[MotsNonTries].items)
    /\ fdata[fcat] = Absent /\ r1.data[fcat] = Absent
    /\ ~r1.sent /\ ~r1.raised

====
